---- MODULE Spec2Model ----
(***************************************************************************)
(* Model of the tb6612fng driver crate (src/src/lib.rs).                   *)
(*                                                                         *)
(* A Motor owns two digital outputs (IN1, IN2), one duty-cycle output      *)
(* (PWM) and the field current_drive_command.  The capabilities are        *)
(* fallible: each write of a call either succeeds or fails, which is an    *)
(* input of the call chosen by the environment.  A pin's modelled value is *)
(* the level last written to it successfully; a failed write leaves that   *)
(* value as it was.                                                        *)
(***************************************************************************)
EXTENDS Integers, Sequences, FiniteSets

\* ---------------------------------------------------------------- bounds

\* Speeds are u8 values.  The model draws them from the values within
\* SpeedRadius of the anchors below: the ends of the valid range, the
\* middle of it, the i8 sign boundary and the u8 maximum.
SpeedRadius == 1

\* `if speed > 100` in Motor::drive.
MaxSpeed == 100

\* DriveCommand::Forward(u8) / Backward(u8).
U8Max == 255

\* The largest i8, the result type of Motor::current_speed.
I8Max == 127

SpeedAnchors == {0, 50, MaxSpeed, I8Max, I8Max + 1, U8Max}

Abs(x) == IF x < 0 THEN -x ELSE x

Speeds == {s \in 0..U8Max : \E a \in SpeedAnchors : Abs(s - a) <= SpeedRadius}

\* ------------------------------------------------------------ data model

Levels == {"low", "high"}

\* enum DriveCommand.  Brake and Stop carry no payload: speed is 0 there.
Forward(s) == [kind |-> "Forward", speed |-> s]
Backward(s) == [kind |-> "Backward", speed |-> s]
Brake == [kind |-> "Brake", speed |-> 0]
Stop == [kind |-> "Stop", speed |-> 0]

DriveCommands ==
    {Forward(s) : s \in Speeds} \cup {Backward(s) : s \in Speeds} \cup {Brake, Stop}

\* The value of the field before the struct literal of Motor::new exists.
NoCommand == [kind |-> "None", speed |-> 0]

\* One attempted capability write: `output` is "in1", "in2" or "pwm",
\* `level` the level of a pin write ("-" for the PWM), `percent` the argument
\* of set_duty_cycle_percent (0 for a pin), `ok` whether it succeeded.
PinWrite(output, level, ok) ==
    [output |-> output, level |-> level, percent |-> 0, ok |-> ok]
PwmWrite(percent, ok) ==
    [output |-> "pwm", level |-> "-", percent |-> percent, ok |-> ok]

\* The environment's input to one call: whether a write to each capability,
\* if the call attempts it, succeeds.
Hardware == [in1 : BOOLEAN, in2 : BOOLEAN, pwm : BOOLEAN]

VARIABLES
    pc,                 \* "init": pins exist, no Motor; "ready"; "failed": new returned Err
    motor,              \* [in1, in2, pwm, pwm_enabled, current_drive_command]
    call,               \* the most recent call: op, command, result, writes, motor before it
    last_ok_command,    \* argument of the most recent drive() that returned Ok
    failed_since_ok,    \* a capability write failed since the most recent Ok
    controller,         \* struct Tb6612fng: [motor_a, motor_b, standby]
    controller_pc,      \* [motor_a, motor_b, tb6612fng]: "init", "ready" or "failed" each
    controller_call,    \* the most recent call on the controller or one of its motors
    shared_motor,       \* the example's Shared { motor }
    motor_ramp_direction, \* the example's Local { motor_ramp_direction }
    example_pc,         \* "init": before #[init]; "running"; "panicked": an unwrap/expect failed
    task_call           \* the example's most recent task run

motor_vars == <<pc, motor, call, last_ok_command, failed_since_ok>>
controller_vars == <<controller, controller_pc, controller_call>>
example_vars == <<shared_motor, motor_ramp_direction, example_pc, task_call>>

vars == <<motor_vars, controller_vars, example_vars>>

\* ------------------------------------------------------------ Motor::drive

\* let speed = match drive_command { Forward(s) | Backward(s) => s, _ => 0 }
SpeedOf(drive_command) ==
    IF drive_command.kind \in {"Forward", "Backward"} THEN drive_command.speed ELSE 0

\* The Backward arm copied from the Forward arm: IN1 set high.
In1Level_backward_high(drive_command) ==
    CASE drive_command.kind = "Forward" -> "high"
      [] drive_command.kind = "Backward" -> "high"
      [] drive_command.kind = "Brake" -> "high"
      [] drive_command.kind = "Stop" -> "low"

\* The Stop arm copied from the Brake arm: IN1 set high.
In1Level_stop_high(drive_command) ==
    CASE drive_command.kind = "Forward" -> "high"
      [] drive_command.kind = "Backward" -> "low"
      [] drive_command.kind = "Brake" -> "high"
      [] drive_command.kind = "Stop" -> "high"

\* The level the match arm of drive_command writes to IN1.
In1Level(drive_command) ==
    CASE drive_command.kind = "Forward" -> "high"
      [] drive_command.kind = "Backward" -> "low"
      [] drive_command.kind = "Brake" -> "high"
      [] drive_command.kind = "Stop" -> "low"

\* The Brake arm copied from the Forward arm: IN2 set low.
In2Level_brake_low(drive_command) ==
    CASE drive_command.kind = "Forward" -> "low"
      [] drive_command.kind = "Backward" -> "high"
      [] drive_command.kind = "Brake" -> "low"
      [] drive_command.kind = "Stop" -> "low"

\* The level the match arm of drive_command writes to IN2.
In2Level(drive_command) ==
    CASE drive_command.kind = "Forward" -> "low"
      [] drive_command.kind = "Backward" -> "high"
      [] drive_command.kind = "Brake" -> "high"
      [] drive_command.kind = "Stop" -> "low"

\* A forgotten bound check: every u8 speed is accepted.
InvalidSpeed_never(speed) == FALSE

\* The bound checked against the i8 range of current_speed instead of 100.
InvalidSpeed_i8(speed) == speed > I8Max

\* An off-by-one bound: 101 is accepted.
InvalidSpeed_off_by_one(speed) == speed > MaxSpeed + 1

\* The bound written with >=: full speed is refused.
InvalidSpeed_rejects_100(speed) == speed >= MaxSpeed

\* if speed > 100 { return Err(MotorError::InvalidSpeed); }
InvalidSpeed(speed) == speed > MaxSpeed

DriveReturn(m, result, writes) == [motor |-> m, result |-> result, writes |-> writes]

\* drive with the field assigned right after the speed check, before the
\* writes: a failed write leaves the new command recorded.
drive_store_first(m, drive_command, hw) ==
    LET speed == SpeedOf(drive_command)
        l1 == In1Level(drive_command)
        l2 == In2Level(drive_command)
        m0 == [m EXCEPT !.current_drive_command = drive_command]
    IN  IF InvalidSpeed(speed)
        THEN DriveReturn(m, "InvalidSpeed", <<>>)
        ELSE IF ~hw.in1
        THEN DriveReturn(m0, "In1Error", <<PinWrite("in1", l1, FALSE)>>)
        ELSE LET m1 == [m0 EXCEPT !.in1 = l1] IN
             IF ~hw.in2
             THEN DriveReturn(m1, "In2Error",
                      <<PinWrite("in1", l1, TRUE), PinWrite("in2", l2, FALSE)>>)
             ELSE LET m2 == [m1 EXCEPT !.in2 = l2] IN
                  IF ~hw.pwm
                  THEN DriveReturn(m2, "PwmError",
                           <<PinWrite("in1", l1, TRUE), PinWrite("in2", l2, TRUE),
                             PwmWrite(speed, FALSE)>>)
                  ELSE DriveReturn([m2 EXCEPT !.pwm = speed], "Ok",
                           <<PinWrite("in1", l1, TRUE), PinWrite("in2", l2, TRUE),
                             PwmWrite(speed, TRUE)>>)

\* drive that attempts all three writes whatever fails, and reports the first
\* failure afterwards.
drive_no_abort(m, drive_command, hw) ==
    LET speed == SpeedOf(drive_command)
        l1 == In1Level(drive_command)
        l2 == In2Level(drive_command)
        m3 == [m EXCEPT !.in1 = IF hw.in1 THEN l1 ELSE @,
                        !.in2 = IF hw.in2 THEN l2 ELSE @,
                        !.pwm = IF hw.pwm THEN speed ELSE @]
        writes == <<PinWrite("in1", l1, hw.in1), PinWrite("in2", l2, hw.in2),
                    PwmWrite(speed, hw.pwm)>>
    IN  IF InvalidSpeed(speed)
        THEN DriveReturn(m, "InvalidSpeed", <<>>)
        ELSE IF ~hw.in1 THEN DriveReturn(m3, "In1Error", writes)
        ELSE IF ~hw.in2 THEN DriveReturn(m3, "In2Error", writes)
        ELSE IF ~hw.pwm THEN DriveReturn(m3, "PwmError", writes)
        ELSE DriveReturn([m3 EXCEPT !.current_drive_command = drive_command],
                         "Ok", writes)

\* drive with the two pin writes of each arm in the other order: IN2 first.
drive_in2_first(m, drive_command, hw) ==
    LET speed == SpeedOf(drive_command)
        l1 == In1Level(drive_command)
        l2 == In2Level(drive_command)
    IN  IF InvalidSpeed(speed)
        THEN DriveReturn(m, "InvalidSpeed", <<>>)
        ELSE IF ~hw.in2
        THEN DriveReturn(m, "In2Error", <<PinWrite("in2", l2, FALSE)>>)
        ELSE LET m1 == [m EXCEPT !.in2 = l2] IN
             IF ~hw.in1
             THEN DriveReturn(m1, "In1Error",
                      <<PinWrite("in2", l2, TRUE), PinWrite("in1", l1, FALSE)>>)
             ELSE LET m2 == [m1 EXCEPT !.in1 = l1] IN
                  IF ~hw.pwm
                  THEN DriveReturn(m2, "PwmError",
                           <<PinWrite("in2", l2, TRUE), PinWrite("in1", l1, TRUE),
                             PwmWrite(speed, FALSE)>>)
                  ELSE DriveReturn(
                           [m2 EXCEPT !.pwm = speed,
                                      !.current_drive_command = drive_command],
                           "Ok",
                           <<PinWrite("in2", l2, TRUE), PinWrite("in1", l1, TRUE),
                             PwmWrite(speed, TRUE)>>)

\* drive with the duty cycle set ahead of the match on the command.
drive_pwm_first(m, drive_command, hw) ==
    LET speed == SpeedOf(drive_command)
        l1 == In1Level(drive_command)
        l2 == In2Level(drive_command)
    IN  IF InvalidSpeed(speed)
        THEN DriveReturn(m, "InvalidSpeed", <<>>)
        ELSE IF ~hw.pwm
        THEN DriveReturn(m, "PwmError", <<PwmWrite(speed, FALSE)>>)
        ELSE LET m1 == [m EXCEPT !.pwm = speed] IN
             IF ~hw.in1
             THEN DriveReturn(m1, "In1Error",
                      <<PwmWrite(speed, TRUE), PinWrite("in1", l1, FALSE)>>)
             ELSE LET m2 == [m1 EXCEPT !.in1 = l1] IN
                  IF ~hw.in2
                  THEN DriveReturn(m2, "In2Error",
                           <<PwmWrite(speed, TRUE), PinWrite("in1", l1, TRUE),
                             PinWrite("in2", l2, FALSE)>>)
                  ELSE DriveReturn(
                           [m2 EXCEPT !.in2 = l2,
                                      !.current_drive_command = drive_command],
                           "Ok",
                           <<PwmWrite(speed, TRUE), PinWrite("in1", l1, TRUE),
                             PinWrite("in2", l2, TRUE)>>)

\* Motor::drive on motor m with the capability outcomes hw.  Each `?` returns
\* at the first failed write; the field is assigned after the three writes.
drive(m, drive_command, hw) ==
    LET speed == SpeedOf(drive_command)
        l1 == In1Level(drive_command)
        l2 == In2Level(drive_command)
    IN  IF InvalidSpeed(speed)
        THEN DriveReturn(m, "InvalidSpeed", <<>>)
        ELSE IF ~hw.in1
        THEN DriveReturn(m, "In1Error", <<PinWrite("in1", l1, FALSE)>>)
        ELSE LET m1 == [m EXCEPT !.in1 = l1] IN
             IF ~hw.in2
             THEN DriveReturn(m1, "In2Error",
                      <<PinWrite("in1", l1, TRUE), PinWrite("in2", l2, FALSE)>>)
             ELSE LET m2 == [m1 EXCEPT !.in2 = l2] IN
                  IF ~hw.pwm
                  THEN DriveReturn(m2, "PwmError",
                           <<PinWrite("in1", l1, TRUE), PinWrite("in2", l2, TRUE),
                             PwmWrite(speed, FALSE)>>)
                  ELSE DriveReturn(
                           [m2 EXCEPT !.pwm = speed,
                                      !.current_drive_command = drive_command],
                           "Ok",
                           <<PinWrite("in1", l1, TRUE), PinWrite("in2", l2, TRUE),
                             PwmWrite(speed, TRUE)>>)

\* -------------------------------------------------------------- Motor::new

\* new without the initial drive: the struct literal only.
new_no_drive(pins, hw) ==
    LET m0 == [pins EXCEPT !.current_drive_command = Stop]
    IN  [motor |-> m0, result |-> "Ok", writes |-> <<>>,
         command |-> m0.current_drive_command]

\* new that tries the initial drive a second time when the first one fails.
new_retry(pins, hw) ==
    LET m0 == [pins EXCEPT !.current_drive_command = Stop]
        r1 == drive(m0, m0.current_drive_command, hw)
        r2 == drive(r1.motor, m0.current_drive_command, hw)
    IN  IF r1.result = "Ok"
        THEN [motor |-> r1.motor, result |-> r1.result, writes |-> r1.writes,
              command |-> m0.current_drive_command]
        ELSE [motor |-> r2.motor, result |-> r2.result,
              writes |-> r1.writes \o r2.writes,
              command |-> m0.current_drive_command]

\* Motor::new: the struct literal with current_drive_command: Stop, then
\* motor.drive(motor.current_drive_command)?.  `command` is what it passed
\* to drive.
new(pins, hw) ==
    LET m0 == [pins EXCEPT !.current_drive_command = Stop]
        r == drive(m0, m0.current_drive_command, hw)
    IN  [motor |-> r.motor, result |-> r.result, writes |-> r.writes,
         command |-> m0.current_drive_command]

\* ---------------------------------------------------------------- accessors

\* Motor::current_drive_command
current_drive_command(m) == m.current_drive_command

\* `s as i8` for a u8 s.
AsI8(s) == IF s > I8Max THEN s - (U8Max + 1) ELSE s

Value(v) == [panic |-> FALSE, value |-> v]
Panic == [panic |-> TRUE, value |-> 0]

\* `-x` for an i8 x: -(-128) overflows, which panics in a build with overflow
\* checks and wraps to -128 in one without.
NegI8(x) == IF x = -(I8Max + 1) THEN {Panic, Value(x)} ELSE {Value(-x)}

\* current_speed with the negation of the Backward arm forgotten.
current_speed_no_negation(m) ==
    LET c == current_drive_command(m) IN
    CASE c.kind = "Forward" -> {Value(AsI8(c.speed))}
      [] c.kind = "Backward" -> {Value(AsI8(c.speed))}
      [] c.kind = "Brake" -> {Value(0)}
      [] c.kind = "Stop" -> {Value(0)}

\* Motor::current_speed: the outcomes a build can produce.
current_speed(m) ==
    LET c == current_drive_command(m) IN
    CASE c.kind = "Forward" -> {Value(AsI8(c.speed))}
      [] c.kind = "Backward" -> NegI8(AsI8(c.speed))
      [] c.kind = "Brake" -> {Value(0)}
      [] c.kind = "Stop" -> {Value(0)}

\* ------------------------------------------------------------------ actions

\* Pins and a PWM channel that no Motor::new has taken yet.
NoMotor == [in1 |-> "low", in2 |-> "low", pwm |-> 0, pwm_enabled |-> FALSE,
            current_drive_command |-> NoCommand]

NoCall == [op |-> "none", command |-> NoCommand, result |-> "none",
           writes |-> <<>>, before |-> NoMotor]

\* The variables of the controller and of the example while only a single
\* Motor is exercised.
ControllerUnused ==
    /\ controller = [motor_a |-> NoMotor, motor_b |-> NoMotor, standby |-> "low"]
    /\ controller_pc = [motor_a |-> "unused", motor_b |-> "unused", tb6612fng |-> "unused"]
    /\ controller_call = [op |-> "none", result |-> "none", writes |-> <<>>,
                          before |-> controller]

ExampleUnused ==
    /\ shared_motor = NoMotor
    /\ motor_ramp_direction = 0
    /\ example_pc = "unused"
    /\ task_call = [op |-> "none", command |-> NoCommand, result |-> "none",
                    writes |-> <<>>, before |-> NoMotor, ramp_before |-> 0]

\* The pins and the PWM channel are in any state when they are handed to
\* Motor::new.
Init ==
    /\ pc = "init"
    /\ motor \in [in1 : Levels, in2 : Levels, pwm : {s \in Speeds : s <= MaxSpeed},
                  pwm_enabled : BOOLEAN, current_drive_command : {NoCommand}]
    /\ call = [NoCall EXCEPT !.before = motor]
    /\ last_ok_command = NoCommand
    /\ failed_since_ok = FALSE
    /\ ControllerUnused
    /\ ExampleUnused

CapabilityErrors == {"In1Error", "In2Error", "PwmError"}

\* let motor = Motor::new(in1, in2, pwm)
New ==
    /\ pc = "init"
    /\ \E hw \in Hardware :
        LET r == new(motor, hw) IN
        /\ pc' = IF r.result = "Ok" THEN "ready" ELSE "failed"
        /\ motor' = r.motor
        /\ call' = [op |-> "new", command |-> r.command, result |-> r.result,
                    writes |-> r.writes, before |-> motor]
        /\ last_ok_command' = IF r.result = "Ok" THEN r.command ELSE last_ok_command
        /\ failed_since_ok' = (r.result \in CapabilityErrors)
    /\ UNCHANGED <<controller_vars, example_vars>>

\* motor.drive(drive_command)
Drive ==
    /\ pc = "ready"
    /\ \E drive_command \in DriveCommands, hw \in Hardware :
        LET r == drive(motor, drive_command, hw) IN
        /\ motor' = r.motor
        /\ call' = [op |-> "drive", command |-> drive_command, result |-> r.result,
                    writes |-> r.writes, before |-> motor]
        /\ last_ok_command' = IF r.result = "Ok" THEN drive_command ELSE last_ok_command
        /\ failed_since_ok' =
               IF r.result = "Ok" THEN FALSE
               ELSE IF r.result \in CapabilityErrors THEN TRUE
               ELSE failed_since_ok
    /\ UNCHANGED <<pc, controller_vars, example_vars>>

Next == New \/ Drive

Spec == Init /\ [][Next]_vars

\* ------------------------------------------------------------ claim checks

\* The pin-pattern table of the documentation, written out.
TableIn1(c) ==
    IF c.kind \in {"Forward", "Brake"} THEN "high" ELSE "low"
TableIn2(c) ==
    IF c.kind \in {"Backward", "Brake"} THEN "high" ELSE "low"
TableDuty(c) ==
    IF c.kind \in {"Forward", "Backward"} THEN c.speed ELSE 0

\* The signed view of a command, in unbounded integers.
SignedView(c) ==
    IF c.kind = "Forward" THEN c.speed
    ELSE IF c.kind = "Backward" THEN 0 - c.speed
    ELSE 0

OutputsAt(m, c) ==
    /\ m.in1 = TableIn1(c)
    /\ m.in2 = TableIn2(c)
    /\ m.pwm = TableDuty(c)

DriveCalled == pc = "ready" /\ call.op = "drive"

\* C1: a drive(c) that returns Ok, from any reachable prior state, leaves
\* IN1, IN2 and the duty cycle at the table pattern of c (Forward: high, low,
\* s; Backward: low, high, s; Brake: high, high, 0; Stop: low, low, 0).
C1_OkDriveSetsTablePattern ==
    (DriveCalled /\ call.result = "Ok") => OutputsAt(motor, call.command)

\* C1 witness: a successful Backward(100) from a state a failed drive left
\* behind (IN1 high while Stop is recorded).
C1_Witness ==
    /\ DriveCalled /\ call.result = "Ok"
    /\ call.command = Backward(MaxSpeed)
    /\ call.before.in1 = "high"
    /\ call.before.current_drive_command = Stop
    /\ motor.in1 = "low" /\ motor.in2 = "high" /\ motor.pwm = MaxSpeed

\* C2: after a drive(c) that returns Ok, current_drive_command() is exactly c
\* and current_speed() is +s for Forward(s), -s for Backward(s), 0 for Brake
\* and Stop.
C2_OkDriveIsReadBack ==
    (DriveCalled /\ call.result = "Ok") =>
        /\ current_drive_command(motor) = call.command
        /\ current_speed(motor) = {Value(SignedView(call.command))}

\* C2 witness: Backward(99) was driven and reads back as -99.
C2_Witness ==
    /\ DriveCalled /\ call.result = "Ok"
    /\ call.command = Backward(MaxSpeed - 1)
    /\ current_speed(motor) = {Value(1 - MaxSpeed)}

\* C3: drive(Forward(s)) or drive(Backward(s)) with s > 100 returns
\* InvalidSpeed, attempts no write, and leaves the pins, the duty cycle,
\* current_drive_command() and current_speed() as they were.
C3_InvalidSpeedRejected ==
    (DriveCalled /\ call.command.kind \in {"Forward", "Backward"}
                 /\ call.command.speed > 100) =>
        /\ call.result = "InvalidSpeed"
        /\ call.writes = <<>>
        /\ motor.in1 = call.before.in1
        /\ motor.in2 = call.before.in2
        /\ motor.pwm = call.before.pwm
        /\ current_drive_command(motor) = current_drive_command(call.before)
        /\ current_speed(motor) = current_speed(call.before)

\* C3 witness: Forward(255) rejected while Backward(100) is recorded and an
\* earlier capability failure has left the pins off its pattern.
C3_Witness ==
    /\ DriveCalled
    /\ call.command = Forward(U8Max)
    /\ call.result = "InvalidSpeed"
    /\ current_drive_command(motor) = Backward(MaxSpeed)
    /\ failed_since_ok

\* C4: the recorded command is the argument of the most recent drive() that
\* returned Ok (the construction's Stop if there was none since), and a call
\* that returns an error leaves the recorded command as it was.
C4_RecordedIsLastOk ==
    (pc = "ready") =>
        /\ current_drive_command(motor) = last_ok_command
        /\ (call.op = "drive" /\ call.result # "Ok") =>
               current_drive_command(motor) = current_drive_command(call.before)

\* C4 witness: drive(Brake) failed at the PWM write while Forward(100), the
\* last successful command, stays recorded.
C4_Witness ==
    /\ DriveCalled
    /\ call.command = Brake
    /\ call.result = "PwmError"
    /\ last_ok_command = Forward(MaxSpeed)
    /\ current_drive_command(motor) = Forward(MaxSpeed)

AllWritesOk ==
    /\ Len(call.writes) = 3
    /\ \A i \in 1..3 : call.writes[i].ok

\* C5 as stated: every drive() either performs all three writes and records
\* the command, or changes nothing observable (pins, duty cycle, recorded
\* command).
C5_AllOrNothing ==
    DriveCalled =>
        \/ /\ call.result = "Ok"
           /\ AllWritesOk
           /\ current_drive_command(motor) = call.command
        \/ motor = call.before

\* C5 amended: every drive() either performs all three writes and records the
\* command, or returns an error with the recorded command and the duty cycle
\* as before; after an error a pin differs from before only if the call wrote
\* it ahead of the failing write (no pin for InvalidSpeed and In1Error, IN1
\* for In2Error, IN1 and IN2 for PwmError).
C5_AllOrPrefix ==
    DriveCalled =>
        \/ /\ call.result = "Ok"
           /\ AllWritesOk
           /\ current_drive_command(motor) = call.command
        \/ /\ call.result # "Ok"
           /\ current_drive_command(motor) = current_drive_command(call.before)
           /\ motor.pwm = call.before.pwm
           /\ (motor.in1 # call.before.in1) => call.result \in {"In2Error", "PwmError"}
           /\ (motor.in2 # call.before.in2) => call.result = "PwmError"

\* C5 witness: a drive that failed at the PWM write after changing both pins.
C5_Witness ==
    /\ DriveCalled
    /\ call.result = "PwmError"
    /\ motor.in1 # call.before.in1
    /\ motor.in2 # call.before.in2
    /\ motor.pwm = call.before.pwm

\* C6: with a valid speed the writes are attempted in the order IN1, IN2,
\* duty cycle and stop at the first failure: In1Error after the IN1 attempt
\* only; In2Error with IN1 at its new level and no duty-cycle write;
\* PwmError with both pins at their new levels.
C6_WritesInOrderUntilFailure ==
    (DriveCalled /\ TableDuty(call.command) <= 100) =>
        LET c == call.command
            w1(ok) == PinWrite("in1", TableIn1(c), ok)
            w2(ok) == PinWrite("in2", TableIn2(c), ok)
            w3(ok) == PwmWrite(TableDuty(c), ok)
        IN  /\ call.result \in {"Ok", "In1Error", "In2Error", "PwmError"}
            /\ call.result = "In1Error" =>
                   /\ call.writes = <<w1(FALSE)>>
                   /\ motor.in2 = call.before.in2
                   /\ motor.pwm = call.before.pwm
            /\ call.result = "In2Error" =>
                   /\ call.writes = <<w1(TRUE), w2(FALSE)>>
                   /\ motor.in1 = TableIn1(c)
                   /\ motor.pwm = call.before.pwm
            /\ call.result = "PwmError" =>
                   /\ call.writes = <<w1(TRUE), w2(TRUE), w3(FALSE)>>
                   /\ motor.in1 = TableIn1(c)
                   /\ motor.in2 = TableIn2(c)
            /\ call.result = "Ok" =>
                   call.writes = <<w1(TRUE), w2(TRUE), w3(TRUE)>>

\* C6 witness: drive(Forward(50)) from Stop fails at IN2: IN1 is already
\* high, the duty cycle was not written.
C6_Witness ==
    /\ DriveCalled
    /\ call.command = Forward(50)
    /\ call.result = "In2Error"
    /\ call.before.in1 = "low"
    /\ motor.in1 = "high"
    /\ Len(call.writes) = 2

C8_NewStopsOnce ==
    (pc = "ready" /\ call.op = "new") =>
        /\ current_drive_command(motor) = Stop
        /\ current_speed(motor) = {Value(0)}
        /\ call.writes = <<PinWrite("in1", "low", TRUE), PinWrite("in2", "low", TRUE),
                           PwmWrite(0, TRUE)>>
        /\ motor.in1 = "low" /\ motor.in2 = "low" /\ motor.pwm = 0

\* C8 witness: a Motor constructed from pins that were high and a PWM at
\* 100 percent.
C8_Witness ==
    /\ pc = "ready" /\ call.op = "new"
    /\ call.before.in1 = "high"
    /\ call.before.in2 = "high"
    /\ call.before.pwm = MaxSpeed
    /\ motor.in1 = "low"

\* C9: in every reachable state of a Motor a recorded Forward(s) or
\* Backward(s) has s <= 100.
C9_RecordedSpeedInRange ==
    (pc = "ready" /\ current_drive_command(motor).kind \in {"Forward", "Backward"}) =>
        current_drive_command(motor).speed <= 100

\* C9 witness: Backward(101) was just refused while Forward(100) is recorded.
C9_Witness ==
    /\ DriveCalled
    /\ call.command = Backward(MaxSpeed + 1)
    /\ call.result = "InvalidSpeed"
    /\ current_drive_command(motor) = Forward(MaxSpeed)

\* C10: in every reachable state current_speed() is the signed view of the
\* recorded command, lies in -100..100, and neither the cast to i8 nor the
\* negation wraps or panics.
C10_CurrentSpeedIsSignedView ==
    (pc = "ready") =>
        LET v == SignedView(current_drive_command(motor))
        IN  /\ current_speed(motor) = {Value(v)}
            /\ v >= 0 - 100
            /\ v <= 100

\* C10 witness: Backward(100) is recorded and current_speed() is -100.
C10_Witness ==
    /\ pc = "ready"
    /\ current_drive_command(motor) = Backward(MaxSpeed)
    /\ current_speed(motor) = {Value(0 - MaxSpeed)}
    /\ call.result = "Ok"

WriteIndexes(output) ==
    {i \in 1..Len(call.writes) : call.writes[i].output = output}

\* C14: after Motor::new returns Ok the PWM output has been enabled by the
\* constructor.
C14_NewEnablesPwm ==
    (pc = "ready" /\ call.op = "new") => motor.pwm_enabled

ErrorOf(output) ==
    IF output = "in1" THEN "In1Error"
    ELSE IF output = "in2" THEN "In2Error"
    ELSE "PwmError"

\* C15: when a write of the initial drive(Stop) of Motor::new fails, new
\* returns the error of that write, no Motor is produced, and the failing
\* write is the last one attempted: nothing is retried or written after it.
C15_NewFailureAborts ==
    (call.op = "new") =>
        /\ (pc = "failed") <=> (call.result # "Ok")
        /\ (pc = "ready") <=> (call.result = "Ok")
        /\ \A i \in 1..Len(call.writes) :
               ~call.writes[i].ok =>
                   /\ i = Len(call.writes)
                   /\ call.result = ErrorOf(call.writes[i].output)
                   /\ pc = "failed"
        /\ call.result = "In1Error" =>
               /\ call.writes = <<PinWrite("in1", "low", FALSE)>>
               /\ motor.in2 = call.before.in2
               /\ motor.pwm = call.before.pwm
        /\ call.result = "In2Error" =>
               /\ call.writes = <<PinWrite("in1", "low", TRUE),
                                  PinWrite("in2", "low", FALSE)>>
               /\ motor.pwm = call.before.pwm
        /\ call.result = "PwmError" =>
               call.writes = <<PinWrite("in1", "low", TRUE), PinWrite("in2", "low", TRUE),
                               PwmWrite(0, FALSE)>>
        /\ call.result \in {"Ok", "In1Error", "In2Error", "PwmError"}

\* C15 witness: new failed at the IN2 write, after setting a high IN1 low;
\* IN2 stays high and no Motor exists.
C15_Witness ==
    /\ pc = "failed"
    /\ call.op = "new" /\ call.result = "In2Error"
    /\ call.before.in1 = "high" /\ motor.in1 = "low"
    /\ call.before.in2 = "high" /\ motor.in2 = "high"
    /\ Len(call.writes) = 2

BothPinsWritten ==
    /\ \E i \in WriteIndexes("in1") : call.writes[i].ok
    /\ \E i \in WriteIndexes("in2") : call.writes[i].ok

PwmWriteFollowsPins ==
    \A p \in WriteIndexes("pwm") :
        /\ \E i \in WriteIndexes("in1") : i < p /\ call.writes[i].ok
        /\ \E i \in WriteIndexes("in2") : i < p /\ call.writes[i].ok

\* C16 as stated: every drive() invocation sets the duty cycle exactly once,
\* after both digital-output writes of that invocation succeeded.
C16_DutyExactlyOnce ==
    DriveCalled =>
        /\ Cardinality(WriteIndexes("pwm")) = 1
        /\ PwmWriteFollowsPins

\* C16 amended: a drive() invocation sets the duty cycle exactly once when
\* both of its digital-output writes succeeded, after those two writes, and
\* not at all when it is rejected with InvalidSpeed or a digital-output write
\* fails.
C16_DutyOnceAfterPins ==
    DriveCalled =>
        /\ Cardinality(WriteIndexes("pwm")) = IF BothPinsWritten THEN 1 ELSE 0
        /\ PwmWriteFollowsPins
        /\ call.result \in {"InvalidSpeed", "In1Error", "In2Error"} =>
               WriteIndexes("pwm") = {}

\* C16 witness: drive(Forward(50)) wrote IN1, IN2 and then the duty cycle 50,
\* once.
C16_Witness ==
    /\ DriveCalled
    /\ call.command = Forward(50)
    /\ call.result = "Ok"
    /\ WriteIndexes("pwm") = {3}
    /\ call.writes[3].percent = 50

NoFailure == [in1 |-> TRUE, in2 |-> TRUE, pwm |-> TRUE]

\* C17: from every reachable state of a Motor, whatever command is recorded,
\* a drive(c) of any command c with speed <= 100 in which no write fails
\* returns Ok and makes c the recorded command.
C17_NoForbiddenTransition ==
    (pc = "ready") =>
        \A c \in DriveCommands :
            (TableDuty(c) <= 100) =>
                LET r == drive(motor, c, NoFailure)
                IN  /\ r.result = "Ok"
                    /\ current_drive_command(r.motor) = c

\* C17 witness: Brake -> Forward(100) taken as one step.
C17_Witness ==
    /\ DriveCalled
    /\ call.result = "Ok"
    /\ current_drive_command(call.before) = Brake
    /\ call.command = Forward(MaxSpeed)
    /\ current_drive_command(motor) = Forward(MaxSpeed)

\* C18: a Motor leaves construction with its outputs at the pattern of the
\* recorded command; a call can take the outputs off that pattern only by
\* returning In1Error, In2Error or PwmError; and every drive() that returns
\* Ok puts them back on it.  So with no capability failure the outputs are
\* at the pattern of current_drive_command() in every reachable state.
C18_MismatchOnlyFromFailure ==
    [][ /\ (pc = "init" /\ pc' = "ready") =>
               OutputsAt(motor', current_drive_command(motor'))
        /\ (pc = "ready" /\ OutputsAt(motor, current_drive_command(motor))
                         /\ ~OutputsAt(motor', current_drive_command(motor'))) =>
               call'.result \in CapabilityErrors
        /\ (pc = "ready" /\ call'.result \in {"Ok", "InvalidSpeed"}
                         /\ OutputsAt(motor, current_drive_command(motor))) =>
               OutputsAt(motor', current_drive_command(motor'))
        /\ (pc = "ready" /\ call'.result = "Ok") =>
               OutputsAt(motor', current_drive_command(motor')) ]_vars

\* C18 witness: a successful drive(Stop) out of a state whose outputs were
\* off the pattern of the recorded command.
C18_Witness ==
    /\ DriveCalled
    /\ call.result = "Ok"
    /\ call.command = Stop
    /\ ~OutputsAt(call.before, current_drive_command(call.before))
    /\ OutputsAt(motor, current_drive_command(motor))

\* ------------------------------------------------------------- Tb6612fng

\* The commands the two motors of a controller are driven with: both
\* directions at full speed, a speed that is refused, Brake and Stop.
ControllerCommands ==
    {Forward(MaxSpeed), Backward(MaxSpeed), Forward(MaxSpeed + 1), Brake, Stop}

StandbyReturn(t, result, writes) ==
    [controller |-> t, result |-> result, writes |-> writes]

\* enable_standby that also records Stop on both motors.
enable_standby_stops_motors(t, ok) ==
    StandbyReturn(
        IF ok THEN [t EXCEPT !.standby = "low",
                             !.motor_a.current_drive_command = Stop,
                             !.motor_b.current_drive_command = Stop]
        ELSE t,
        IF ok THEN "Ok" ELSE "Err",
        <<PinWrite("standby", "low", ok)>>)

\* Tb6612fng::enable_standby: self.standby.set_low()
enable_standby(t, ok) ==
    StandbyReturn(IF ok THEN [t EXCEPT !.standby = "low"] ELSE t,
                  IF ok THEN "Ok" ELSE "Err",
                  <<PinWrite("standby", "low", ok)>>)

\* Tb6612fng::disable_standby: self.standby.set_high()
disable_standby(t, ok) ==
    StandbyReturn(IF ok THEN [t EXCEPT !.standby = "high"] ELSE t,
                  IF ok THEN "Ok" ELSE "Err",
                  <<PinWrite("standby", "high", ok)>>)

\* Tb6612fng::current_standby: self.standby.is_set_high().  The pin reports
\* the level it was last set to; the read itself can fail.
current_standby(t, ok) ==
    [result |-> IF ok THEN "Ok" ELSE "Err",
     value |-> IF ok THEN t.standby = "high" ELSE FALSE]

\* Tb6612fng::new with the standby pin driven low (enable_standby) instead.
Tb6612fng_new_in_standby(motor_a, motor_b, standby, ok) ==
    LET c == [motor_a |-> motor_a, motor_b |-> motor_b, standby |-> standby]
        r == enable_standby(c, ok)
    IN  StandbyReturn(r.controller, IF r.result = "Ok" THEN "Ok" ELSE "Standby",
                      r.writes)

\* Tb6612fng::new: the struct literal, then
\* controller.disable_standby().map_err(Tb6612fngError::Standby)?
Tb6612fng_new(motor_a, motor_b, standby, ok) ==
    LET c == [motor_a |-> motor_a, motor_b |-> motor_b, standby |-> standby]
        r == disable_standby(c, ok)
    IN  StandbyReturn(r.controller, IF r.result = "Ok" THEN "Ok" ELSE "Standby",
                      r.writes)

\* A drive on motor_a that reaches motor_b too, as if the two Motors were
\* one.
motor_a_drive_both(t, drive_command, hw) ==
    LET ra == drive(t.motor_a, drive_command, hw)
        rb == drive(t.motor_b, drive_command, hw)
    IN  [controller |-> [t EXCEPT !.motor_a = ra.motor, !.motor_b = rb.motor],
         result |-> ra.result, writes |-> ra.writes]

\* controller.motor_a.drive(drive_command)
motor_a_drive(t, drive_command, hw) ==
    LET r == drive(t.motor_a, drive_command, hw)
    IN  [controller |-> [t EXCEPT !.motor_a = r.motor],
         result |-> r.result, writes |-> r.writes]

\* controller.motor_b.drive(drive_command)
motor_b_drive(t, drive_command, hw) ==
    LET r == drive(t.motor_b, drive_command, hw)
    IN  [controller |-> [t EXCEPT !.motor_b = r.motor],
         result |-> r.result, writes |-> r.writes]

\* The variables of the single Motor while the controller is exercised.
MotorUnused ==
    /\ pc = "unused"
    /\ motor = NoMotor
    /\ call = NoCall
    /\ last_ok_command = NoCommand
    /\ failed_since_ok = FALSE

\* The capability outcomes of a call on a controller's motor: no failure, or
\* one failing capability.
ControllerHardware ==
    {hw \in Hardware : Cardinality({o \in {"in1", "in2", "pwm"} : ~hw[o]}) <= 1}

ControllerPins ==
    [in1 : Levels, in2 : Levels, pwm : {MaxSpeed}, pwm_enabled : {TRUE},
     current_drive_command : {NoCommand}]

\* The record of a call: what was called, on which motor's command, what it
\* returned and wrote, the controller before it, and, carried from call to
\* call, the last successfully driven command of each motor and the standby
\* mode last requested successfully.
ControllerCall(op, command, result, value, writes, before, ok_a, ok_b, mode) ==
    [op |-> op, command |-> command, result |-> result, value |-> value,
     writes |-> writes, before |-> before,
     last_ok_a |-> ok_a, last_ok_b |-> ok_b, standby_mode |-> mode]

\* Seven pins and PWM channels in any state, nothing constructed.
ControllerInit ==
    /\ controller \in [motor_a : ControllerPins, motor_b : ControllerPins,
                       standby : Levels]
    /\ controller_pc = [motor_a |-> "init", motor_b |-> "init", tb6612fng |-> "init"]
    /\ controller_call = ControllerCall("none", NoCommand, "none", FALSE, <<>>,
                             controller, NoCommand, NoCommand, "unknown")
    /\ MotorUnused
    /\ ExampleUnused

MotorsUsable == controller_pc.tb6612fng \in {"init", "ready"}

\* Motor::new(motor_a_in1, motor_a_in2, motor_a_pwm)
MotorANew ==
    /\ controller_pc.motor_a = "init"
    /\ MotorsUsable
    /\ \E hw \in Hardware :
        LET r == new(controller.motor_a, hw) IN
        /\ controller' = [controller EXCEPT !.motor_a = r.motor]
        /\ controller_pc' = [controller_pc EXCEPT
               !.motor_a = IF r.result = "Ok" THEN "ready" ELSE "failed"]
        /\ controller_call' = ControllerCall("motor_a.new", r.command, r.result, FALSE,
               r.writes, controller,
               IF r.result = "Ok" THEN r.command ELSE controller_call.last_ok_a,
               controller_call.last_ok_b, controller_call.standby_mode)
    /\ UNCHANGED <<motor_vars, example_vars>>

\* Motor::new(motor_b_in1, motor_b_in2, motor_b_pwm)
MotorBNew ==
    /\ controller_pc.motor_b = "init"
    /\ MotorsUsable
    /\ \E hw \in Hardware :
        LET r == new(controller.motor_b, hw) IN
        /\ controller' = [controller EXCEPT !.motor_b = r.motor]
        /\ controller_pc' = [controller_pc EXCEPT
               !.motor_b = IF r.result = "Ok" THEN "ready" ELSE "failed"]
        /\ controller_call' = ControllerCall("motor_b.new", r.command, r.result, FALSE,
               r.writes, controller, controller_call.last_ok_a,
               IF r.result = "Ok" THEN r.command ELSE controller_call.last_ok_b,
               controller_call.standby_mode)
    /\ UNCHANGED <<motor_vars, example_vars>>

\* Tb6612fng::new(motor_a, motor_b, standby)
ControllerNew ==
    /\ controller_pc = [motor_a |-> "ready", motor_b |-> "ready", tb6612fng |-> "init"]
    /\ \E ok \in BOOLEAN :
        LET r == Tb6612fng_new(controller.motor_a, controller.motor_b,
                               controller.standby, ok) IN
        /\ controller' = r.controller
        /\ controller_pc' = [controller_pc EXCEPT
               !.tb6612fng = IF r.result = "Ok" THEN "ready" ELSE "failed"]
        /\ controller_call' = ControllerCall("new", NoCommand, r.result, FALSE,
               r.writes, controller, controller_call.last_ok_a,
               controller_call.last_ok_b,
               IF r.result = "Ok" THEN "disabled" ELSE controller_call.standby_mode)
    /\ UNCHANGED <<motor_vars, example_vars>>

\* controller.motor_a.drive(drive_command), or motor_a.drive(drive_command)
\* before the Motor is handed to Tb6612fng::new
MotorADrive ==
    /\ controller_pc.motor_a = "ready"
    /\ MotorsUsable
    /\ \E drive_command \in ControllerCommands, hw \in ControllerHardware :
        LET r == motor_a_drive(controller, drive_command, hw) IN
        /\ controller' = r.controller
        /\ controller_call' = ControllerCall("motor_a.drive", drive_command, r.result,
               FALSE, r.writes, controller,
               IF r.result = "Ok" THEN drive_command ELSE controller_call.last_ok_a,
               controller_call.last_ok_b, controller_call.standby_mode)
    /\ UNCHANGED <<controller_pc, motor_vars, example_vars>>

\* controller.motor_b.drive(drive_command)
MotorBDrive ==
    /\ controller_pc.motor_b = "ready"
    /\ MotorsUsable
    /\ \E drive_command \in ControllerCommands, hw \in ControllerHardware :
        LET r == motor_b_drive(controller, drive_command, hw) IN
        /\ controller' = r.controller
        /\ controller_call' = ControllerCall("motor_b.drive", drive_command, r.result,
               FALSE, r.writes, controller, controller_call.last_ok_a,
               IF r.result = "Ok" THEN drive_command ELSE controller_call.last_ok_b,
               controller_call.standby_mode)
    /\ UNCHANGED <<controller_pc, motor_vars, example_vars>>

\* controller.enable_standby()
EnableStandby ==
    /\ controller_pc.tb6612fng = "ready"
    /\ \E ok \in BOOLEAN :
        LET r == enable_standby(controller, ok) IN
        /\ controller' = r.controller
        /\ controller_call' = ControllerCall("enable_standby", NoCommand, r.result,
               FALSE, r.writes, controller, controller_call.last_ok_a,
               controller_call.last_ok_b,
               IF r.result = "Ok" THEN "enabled" ELSE controller_call.standby_mode)
    /\ UNCHANGED <<controller_pc, motor_vars, example_vars>>

\* controller.disable_standby()
DisableStandby ==
    /\ controller_pc.tb6612fng = "ready"
    /\ \E ok \in BOOLEAN :
        LET r == disable_standby(controller, ok) IN
        /\ controller' = r.controller
        /\ controller_call' = ControllerCall("disable_standby", NoCommand, r.result,
               FALSE, r.writes, controller, controller_call.last_ok_a,
               controller_call.last_ok_b,
               IF r.result = "Ok" THEN "disabled" ELSE controller_call.standby_mode)
    /\ UNCHANGED <<controller_pc, motor_vars, example_vars>>

\* controller.current_standby()
CurrentStandby ==
    /\ controller_pc.tb6612fng = "ready"
    /\ \E ok \in BOOLEAN :
        LET r == current_standby(controller, ok) IN
        /\ controller_call' = ControllerCall("current_standby", NoCommand, r.result,
               r.value, <<>>, controller, controller_call.last_ok_a,
               controller_call.last_ok_b, controller_call.standby_mode)
    /\ UNCHANGED <<controller, controller_pc, motor_vars, example_vars>>

ControllerNext ==
    \/ MotorANew
    \/ MotorBNew
    \/ ControllerNew
    \/ MotorADrive
    \/ MotorBDrive
    \/ EnableStandby
    \/ DisableStandby
    \/ CurrentStandby

SpecController == ControllerInit /\ [][ControllerNext]_vars

\* ----------------------------------------------------- Tb6612fng claims

ControllerCalled(op) ==
    controller_call.op = op

\* C11: a current_standby() that returns Ok returns true exactly when
\* standby mode is enabled: true after a successful enable_standby(), false
\* after a successful disable_standby() or a fresh Tb6612fng::new.
C11_CurrentStandbyReportsStandby ==
    (ControllerCalled("current_standby") /\ controller_call.result = "Ok") =>
        (controller_call.value <=> (controller_call.standby_mode = "enabled"))

StandbyWrote(level) ==
    /\ Len(controller_call.writes) = 1
    /\ controller_call.writes[1].output = "standby"
    /\ controller_call.writes[1].level = level
    /\ controller_call.writes[1].ok <=> (controller_call.result = "Ok")
    /\ controller.standby =
           IF controller_call.result = "Ok" THEN level
           ELSE controller_call.before.standby

MotorsRecordLastOk ==
    /\ current_drive_command(controller.motor_a) = controller_call.last_ok_a
    /\ current_drive_command(controller.motor_b) = controller_call.last_ok_b

\* C12: enable_standby() writes the standby pin low and nothing else,
\* disable_standby() writes it high and nothing else; whether the call
\* succeeds or fails, both motors' IN1, IN2, duty cycle and recorded command
\* are as before it, and each recorded command is still the one last driven
\* successfully.
C12_StandbyLeavesMotors ==
    /\ ControllerCalled("enable_standby") => StandbyWrote("low")
    /\ ControllerCalled("disable_standby") => StandbyWrote("high")
    /\ (ControllerCalled("enable_standby") \/ ControllerCalled("disable_standby")) =>
           /\ controller.motor_a = controller_call.before.motor_a
           /\ controller.motor_b = controller_call.before.motor_b
           /\ MotorsRecordLastOk

\* C12 witness: standby left again with Forward(100) on motor A and Brake on
\* motor B still recorded and on their pins.
C12_Witness ==
    /\ ControllerCalled("disable_standby")
    /\ controller_call.result = "Ok"
    /\ controller_call.before.standby = "low"
    /\ controller.standby = "high"
    /\ controller.motor_a.current_drive_command = Forward(MaxSpeed)
    /\ controller.motor_a.in1 = "high" /\ controller.motor_a.pwm = MaxSpeed
    /\ controller.motor_b.current_drive_command = Brake

C19_MotorsIndependent ==
    /\ ControllerCalled("motor_a.drive") =>
           /\ controller.motor_b = controller_call.before.motor_b
           /\ controller.standby = controller_call.before.standby
    /\ ControllerCalled("motor_b.drive") =>
           /\ controller.motor_a = controller_call.before.motor_a
           /\ controller.standby = controller_call.before.standby

\* C19 witness: motor A of a controller in standby driven to Forward(100)
\* while motor B keeps Backward(100).
C19_Witness ==
    /\ controller_pc.tb6612fng = "ready"
    /\ ControllerCalled("motor_a.drive")
    /\ controller_call.result = "Ok"
    /\ controller_call.command = Forward(MaxSpeed)
    /\ controller_call.before.motor_a.current_drive_command = Stop
    /\ controller.motor_a.in1 = "high"
    /\ controller.motor_b.current_drive_command = Backward(MaxSpeed)
    /\ controller.motor_b.in1 = "low"
    /\ controller.standby = "low"

\* ------------------------------------------- stm32f4-single-motor-example

\* `x as u8` for an i8 x.
AsU8(x) == IF x < 0 THEN x + (U8Max + 1) ELSE x

\* `x + y` for two i8: an overflow panics in a build with overflow checks
\* and wraps in one without.
AddI8(x, y) ==
    LET sum == x + y IN
    IF sum > I8Max THEN {Panic, Value(sum - (U8Max + 1))}
    ELSE IF sum < -(I8Max + 1) THEN {Panic, Value(sum + (U8Max + 1))}
    ELSE {Value(sum)}

\* What the match of update_motor_speed yields: the command to drive and
\* the new ramp direction, or no drive (the early return), or a panic of
\* the i8 addition.
RampStep(command, ramp) ==
    [panic |-> FALSE, drives |-> TRUE, command |-> command, ramp |-> ramp]
RampReturn(ramp) ==
    [panic |-> FALSE, drives |-> FALSE, command |-> NoCommand, ramp |-> ramp]
RampPanic(ramp) ==
    [panic |-> TRUE, drives |-> FALSE, command |-> NoCommand, ramp |-> ramp]

RampAdd(kind, speed, ramp) ==
    {IF v.panic THEN RampPanic(ramp)
     ELSE RampStep([kind |-> kind, speed |-> AsU8(v.value)], ramp) :
        v \in AddI8(AsI8(speed), ramp)}

\* The match without its `100 =>` arms: the ramp never turns at full speed.
new_drive_direction_no_turn(c, ramp) ==
    CASE c.kind = "Forward" ->
             IF c.speed = 0 THEN {RampStep(Backward(1), 1)}
             ELSE RampAdd("Forward", c.speed, ramp)
      [] c.kind = "Backward" ->
             IF c.speed = 0 THEN {RampStep(Forward(1), 1)}
             ELSE RampAdd("Backward", c.speed, ramp)
      [] c.kind \in {"Stop", "Brake"} -> {RampReturn(ramp)}

\* The match with a catch-all arm in place of `Stop | Brake => return`: a
\* stopped motor is started again.
new_drive_direction_restarts(c, ramp) ==
    CASE c.kind = "Forward" ->
             IF c.speed = 100 THEN {RampStep(Forward(99), -1)}
             ELSE IF c.speed = 0 THEN {RampStep(Backward(1), 1)}
             ELSE RampAdd("Forward", c.speed, ramp)
      [] c.kind = "Backward" ->
             IF c.speed = 100 THEN {RampStep(Backward(99), -1)}
             ELSE IF c.speed = 0 THEN {RampStep(Forward(1), 1)}
             ELSE RampAdd("Backward", c.speed, ramp)
      [] c.kind \in {"Stop", "Brake"} -> {RampStep(Forward(1), 1)}

\* The match with the `0 =>` arm of Forward keeping the direction: the ramp
\* never goes backward.
new_drive_direction_no_reverse(c, ramp) ==
    CASE c.kind = "Forward" ->
             IF c.speed = 100 THEN {RampStep(Forward(99), -1)}
             ELSE IF c.speed = 0 THEN {RampStep(Forward(1), 1)}
             ELSE RampAdd("Forward", c.speed, ramp)
      [] c.kind = "Backward" ->
             IF c.speed = 100 THEN {RampStep(Backward(99), -1)}
             ELSE IF c.speed = 0 THEN {RampStep(Forward(1), 1)}
             ELSE RampAdd("Backward", c.speed, ramp)
      [] c.kind \in {"Stop", "Brake"} -> {RampReturn(ramp)}

\* let new_drive_direction = match motor.current_drive_command() { ... }
new_drive_direction(c, ramp) ==
    CASE c.kind = "Forward" ->
             IF c.speed = 100 THEN {RampStep(Forward(99), -1)}
             ELSE IF c.speed = 0 THEN {RampStep(Backward(1), 1)}
             ELSE RampAdd("Forward", c.speed, ramp)
      [] c.kind = "Backward" ->
             IF c.speed = 100 THEN {RampStep(Backward(99), -1)}
             ELSE IF c.speed = 0 THEN {RampStep(Forward(1), 1)}
             ELSE RampAdd("Backward", c.speed, ramp)
      [] c.kind \in {"Stop", "Brake"} -> {RampReturn(ramp)}

TaskReturn(m, ramp, command, result, writes, panicked) ==
    [motor |-> m, ramp |-> ramp, command |-> command, result |-> result,
     writes |-> writes, panicked |-> panicked]

\* The body of update_motor_speed under the lock on the shared motor: the
\* match, then motor.drive(new_drive_direction).expect(..).  The outcomes a
\* build can produce.
update_motor_speed(m, ramp, hw) ==
    {IF d.panic
     THEN TaskReturn(m, d.ramp, NoCommand, "Overflow", <<>>, TRUE)
     ELSE IF ~d.drives
     THEN TaskReturn(m, d.ramp, NoCommand, "none", <<>>, FALSE)
     ELSE LET r == drive(m, d.command, hw)
          IN  TaskReturn(r.motor, d.ramp, d.command, r.result, r.writes,
                         r.result # "Ok") :
        d \in new_drive_direction(current_drive_command(m), ramp)}

\* button_click with the Stop arm starting the motor: the brake is skipped.
button_click_skips_brake(m, hw) ==
    LET c == current_drive_command(m)
        command == IF c.kind = "Stop" THEN Backward(0)
                   ELSE IF c.kind = "Brake" THEN Backward(0)
                   ELSE Stop
        r == drive(m, command, hw)
    IN  [motor |-> r.motor, command |-> command, result |-> r.result,
         writes |-> r.writes, panicked |-> r.result # "Ok"]

\* The body of button_click under the lock on the shared motor.
button_click(m, hw) ==
    LET c == current_drive_command(m)
        command == IF c.kind = "Stop" THEN Brake
                   ELSE IF c.kind = "Brake" THEN Backward(0)
                   ELSE Stop
        r == drive(m, command, hw)
    IN  [motor |-> r.motor, command |-> command, result |-> r.result,
         writes |-> r.writes, panicked |-> r.result # "Ok"]

\* #[init]: Motor::new(motor_in1, motor_in2, motor_pwm).unwrap(), then
\* motor.drive(DriveCommand::Backward(0)).unwrap().
init(pins, hw_new, hw_drive) ==
    LET n == new(pins, hw_new)
        r == drive(n.motor, Backward(0), hw_drive)
    IN  IF n.result # "Ok"
        THEN [motor |-> n.motor, command |-> n.command, result |-> n.result,
              writes |-> n.writes, panicked |-> TRUE]
        ELSE [motor |-> r.motor, command |-> Backward(0), result |-> r.result,
              writes |-> n.writes \o r.writes, panicked |-> r.result # "Ok"]

\* The pins as init gets them: in any state, the PWM channel enabled by
\* motor_pwm.enable().
ExampleInit ==
    /\ shared_motor \in [in1 : Levels, in2 : Levels, pwm : {0, MaxSpeed},
                         pwm_enabled : {TRUE}, current_drive_command : {NoCommand}]
    /\ motor_ramp_direction = 0
    /\ example_pc = "init"
    /\ task_call = [op |-> "none", command |-> NoCommand, result |-> "none",
                    writes |-> <<>>, before |-> shared_motor, ramp_before |-> 0]
    /\ MotorUnused
    /\ ControllerUnused

\* #[init] with the capability outcomes hw_new and hw_drive.
AppInitOn(hw_new, hw_drive) ==
    /\ example_pc = "init"
    /\ LET r == init(shared_motor, hw_new, hw_drive) IN
        /\ shared_motor' = r.motor
        /\ motor_ramp_direction' = 1
        /\ example_pc' = IF r.panicked THEN "panicked" ELSE "running"
        /\ task_call' = [op |-> "init", command |-> r.command, result |-> r.result,
                         writes |-> r.writes, before |-> shared_motor,
                         ramp_before |-> motor_ramp_direction]
    /\ UNCHANGED <<motor_vars, controller_vars>>

AppInit == \E hw_new \in Hardware, hw_drive \in Hardware : AppInitOn(hw_new, hw_drive)

\* One run of the task update_motor_speed.  The task respawns itself at the
\* end of every run (the early return leaves the closure only), so one run
\* is always pending while the application runs.
UpdateMotorSpeedOn(hw) ==
    /\ example_pc = "running"
    /\ \E r \in update_motor_speed(shared_motor, motor_ramp_direction, hw) :
        /\ shared_motor' = r.motor
        /\ motor_ramp_direction' = r.ramp
        /\ example_pc' = IF r.panicked THEN "panicked" ELSE "running"
        /\ task_call' = [op |-> "update_motor_speed", command |-> r.command,
                         result |-> r.result, writes |-> r.writes,
                         before |-> shared_motor,
                         ramp_before |-> motor_ramp_direction]
    /\ UNCHANGED <<motor_vars, controller_vars>>

UpdateMotorSpeed == \E hw \in Hardware : UpdateMotorSpeedOn(hw)

\* One run of the task button_click, bound to the button's interrupt.
ButtonClickOn(hw) ==
    /\ example_pc = "running"
    /\ LET r == button_click(shared_motor, hw) IN
        /\ shared_motor' = r.motor
        /\ example_pc' = IF r.panicked THEN "panicked" ELSE "running"
        /\ task_call' = [op |-> "button_click", command |-> r.command,
                         result |-> r.result, writes |-> r.writes,
                         before |-> shared_motor,
                         ramp_before |-> motor_ramp_direction]
    /\ UNCHANGED <<motor_ramp_direction, motor_vars, controller_vars>>

ButtonClick == \E hw \in Hardware : ButtonClickOn(hw)

ExampleNext == AppInit \/ UpdateMotorSpeed \/ ButtonClick

SpecExample == ExampleInit /\ [][ExampleNext]_vars

\* ------------------------------------------------------- example claims

TickCalled == task_call.op = "update_motor_speed"

\* C20: under any interleaving of ramp ticks and button presses, every
\* command the ramp task passes to drive() has a speed in 0..100, the i8/u8
\* arithmetic on the speed and the ramp direction never overflows, no drive()
\* of the application returns InvalidSpeed, and every tick that runs to its
\* end while Forward or Backward is recorded changes current_speed() by
\* exactly 1 in absolute value.
C20_RampStaysInRange ==
    /\ task_call.result \notin {"InvalidSpeed", "Overflow"}
    /\ motor_ramp_direction \in {0, 1, 0 - 1}
    /\ TickCalled =>
           /\ task_call.command.speed >= 0
           /\ task_call.command.speed <= 100
           /\ (task_call.before.current_drive_command.kind \in {"Forward", "Backward"}) =>
                  /\ task_call.command.kind \in {"Forward", "Backward"}
                  /\ (example_pc = "running") =>
                         /\ current_drive_command(shared_motor) = task_call.command
                         /\ Abs(SignedView(current_drive_command(shared_motor))
                                - SignedView(current_drive_command(task_call.before))) = 1
                         /\ current_speed(shared_motor) =
                                {Value(SignedView(current_drive_command(shared_motor)))}

\* C20 witness: a tick at Forward(100) with the ramp going up turns the ramp
\* and drives Forward(99).
C20_Witness ==
    /\ TickCalled
    /\ example_pc = "running"
    /\ current_drive_command(task_call.before) = Forward(MaxSpeed)
    /\ task_call.ramp_before = 1
    /\ task_call.command = Forward(MaxSpeed - 1)
    /\ motor_ramp_direction = 0 - 1
    /\ current_speed(shared_motor) = {Value(MaxSpeed - 1)}

\* The example with a button that is never pressed and capabilities that
\* never fail: init runs at reset and the timer queue runs the pending
\* update_motor_speed every 100 ms.
Boot == AppInitOn(NoFailure, NoFailure)

RampTick == UpdateMotorSpeedOn(NoFailure)

RampNext == Boot \/ RampTick

SpecRamp ==
    ExampleInit /\ [][RampNext]_vars /\ WF_vars(Boot) /\ WF_vars(RampTick)

Recorded == current_drive_command(shared_motor)

\* C21: once Stop or Brake is recorded, only a button press changes the
\* recorded command; a ramp tick taken in that state issues no drive() and
\* writes no pin, under any interleaving of ticks and presses.
C21_TickLeavesStoppedMotor ==
    [][ (example_pc = "running" /\ Recorded.kind \in {"Stop", "Brake"}) =>
            /\ (Recorded' # Recorded) => task_call'.op = "button_click"
            /\ (task_call'.op = "update_motor_speed") =>
                   /\ task_call'.command = NoCommand
                   /\ task_call'.result = "none"
                   /\ task_call'.writes = <<>>
                   /\ shared_motor' = shared_motor
                   /\ example_pc' = "running" ]_vars

\* C21 witness: a tick that ran while Brake was recorded and left it there.
C21_Witness ==
    /\ TickCalled
    /\ example_pc = "running"
    /\ current_drive_command(task_call.before) = Brake
    /\ Recorded = Brake
    /\ shared_motor.in1 = "high" /\ shared_motor.in2 = "high"
    /\ task_call.writes = <<>>

ButtonCalled == task_call.op = "button_click"

\* C22: a button press drives Stop when Forward or Backward is recorded,
\* Brake when Stop is recorded and Backward(0) when Brake is recorded; with
\* no capability failure the command is recorded, so three presses in a row
\* from a driving state end at Backward(0), a driving state at speed 0.
C22_ButtonCycle ==
    /\ ButtonCalled =>
           LET b == current_drive_command(task_call.before) IN
           /\ (b.kind \in {"Forward", "Backward"}) => task_call.command = Stop
           /\ (b.kind = "Stop") => task_call.command = Brake
           /\ (b.kind = "Brake") => task_call.command = Backward(0)
           /\ (task_call.result = "Ok") =>
                  /\ Recorded = task_call.command
                  /\ example_pc = "running"
    /\ (example_pc = "running" /\ Recorded.kind \in {"Forward", "Backward"}) =>
           LET r1 == button_click(shared_motor, NoFailure)
               r2 == button_click(r1.motor, NoFailure)
               r3 == button_click(r2.motor, NoFailure)
           IN  /\ current_drive_command(r1.motor) = Stop
               /\ current_drive_command(r2.motor) = Brake
               /\ current_drive_command(r3.motor) = Backward(0)
               /\ current_speed(r3.motor) = {Value(0)}
               /\ ~r1.panicked /\ ~r2.panicked /\ ~r3.panicked

\* C22 witness: the third press of a cycle: Brake was recorded, the press
\* drove Backward(0).
C22_Witness ==
    /\ ButtonCalled
    /\ task_call.result = "Ok"
    /\ current_drive_command(task_call.before) = Brake
    /\ Recorded = Backward(0)
    /\ shared_motor.in1 = "low" /\ shared_motor.in2 = "high" /\ shared_motor.pwm = 0

\* C23: with no button press, no capability failure and the ramp task run
\* again and again, the recorded command is Forward(100) infinitely often
\* and Backward(100) infinitely often.
C23_RampSweepsBothEnds ==
    /\ []<>(Recorded = Forward(100))
    /\ []<>(Recorded = Backward(100))

\* C23 witness: the ramp has come down through Forward and up to
\* Backward(100).
C23_Witness ==
    /\ TickCalled
    /\ example_pc = "running"
    /\ current_drive_command(task_call.before) = Backward(MaxSpeed - 1)
    /\ Recorded = Backward(MaxSpeed)
    /\ motor_ramp_direction = 1
    /\ shared_motor.pwm = MaxSpeed

====
